---- MODULE Spec2Model ----
(***************************************************************************)
(* Model of the i18n-search translation catalog parser                     *)
(* (src/src/i18n/parser.ts) and of the catalog lifecycle of the extension  *)
(* (src/src/activate.ts).                                                  *)
(*                                                                         *)
(* Strings are TLA+ strings.  A JavaScript object used as a map is a       *)
(* sequence of entries [k, v] in insertion order (the order Object.entries *)
(* and for-in report for non-integer keys); its prototype chain is         *)
(* modelled by ObjectPrototypeNames.                                       *)
(***************************************************************************)
EXTENDS Integers, Sequences, FiniteSets, TLC

VARIABLES
    sourceFile,     \* parser: the syntax tree handed to parseContent
    pc,             \* parser: position of parseContent
    stack,          \* parser: call stack of parseTranslationObject
    valueToKeys,    \* parser: the map being built, value -> keys
    keyToValue,     \* parser: the map being built, key -> value
    errors,         \* parser: the diagnostics collected so far
    validation,     \* parser: what validateTranslationFile returned
    parses,         \* parser: the files parsed before, with what was returned
    fileContent,        \* the translation file on disk
    workspaceFolders,   \* TRUE when vscode.workspace has a folder
    watcher,            \* TRUE when setupFileWatcher created the watcher
    notifications,      \* change events the watcher has not delivered yet
    microtasks,         \* continuations of async functions, oldest first
    phase,              \* event loop: "listeners" are called or "microtasks" run
    translationMap,     \* activate: let translationMap
    fileSystemProvider, \* activate: let fileSystemProvider, with its map
    viewTranslationMap, \* I18nSearchViewProvider.translationMap
    view,               \* I18nSearchViewProvider._view: "none" or a view
    resolved,           \* the views resolveWebviewView has been called for
    webviewReady,       \* I18nSearchViewProvider.webviewReady
    pendingFocus,       \* I18nSearchViewProvider.pendingFocus
    readyViews,         \* the views that have sent webviewReady
    unserved,           \* a focus request was made with no view or no
                        \* ready webview, and no webviewReady came since
    posted,             \* the messages the last posting handler has posted
    fsResult,           \* what the last stat or readFile call returned
    lastSearchTerm,     \* I18nSearchViewProvider.lastSearchTerm
    lastSearchResults,  \* I18nSearchViewProvider.lastSearchResults
    changes,            \* number of writes to the file so far
    lastRead,           \* what the reload started last has read
    lastCompleted       \* what the reload finished last had read

parserVars ==
    <<sourceFile, pc, stack, valueToKeys, keyToValue, errors, validation,
      parses>>

lifecycleVars ==
    <<fileContent, workspaceFolders, watcher, notifications, microtasks,
      phase, translationMap, fileSystemProvider, viewTranslationMap, view,
      resolved, webviewReady, pendingFocus, readyViews, unserved, posted,
      fsResult,
      lastSearchTerm, lastSearchResults, changes, lastRead, lastCompleted>>

\* the focus state of the search view provider, and who has reported ready
focusVars == <<webviewReady, pendingFocus, readyViews, unserved>>

vars == <<parserVars, lifecycleVars>>

-----------------------------------------------------------------------------
(* Bounds of the explored input space.                                     *)

\* total number of properties in the exported object literal, all levels
MaxProps == 3
\* nesting depth of object literals below the exported one
MaxDepth == 1
\* number of times the translation file is written after activation
MaxChanges == 2
\* number of top-level statements of a file that declares variables
MaxStatements == 3

\* property names that appear as identifiers
Names == {"a", "b", "__proto__"}
\* texts of string literals
Values == {"X", "Z", "constructor"}

-----------------------------------------------------------------------------
(* JavaScript plain objects.                                               *)

\* names every plain object inherits from Object.prototype; reading them on
\* an object that has no own property of that name yields a truthy value
\* that is not an array
ObjectPrototypeNames ==
    {"constructor", "toString", "valueOf", "hasOwnProperty", "__proto__"}

EmptyObject == <<>>

HasOwn(obj, k) == \E i \in 1..Len(obj) : obj[i].k = k

IndexOf(obj, k) == CHOOSE i \in 1..Len(obj) : obj[i].k = k

GetOwn(obj, k) == obj[IndexOf(obj, k)].v

\* obj[k] = v : an own property keeps its place, a new one goes last; an
\* assignment of a primitive to __proto__ is swallowed by the inherited setter
SetProp(obj, k, v) ==
    IF k = "__proto__" THEN obj
    ELSE IF HasOwn(obj, k)
         THEN [obj EXCEPT ![IndexOf(obj, k)] = [k |-> k, v |-> v]]
         ELSE Append(obj, [k |-> k, v |-> v])

\* if (!map[value]) { map[value] = []; } map[value].push(key);
\* map[value] of an inherited member is truthy and has no push: the call
\* throws a TypeError and nothing has been written
PushKey(map, value, key) ==
    IF HasOwn(map, value)
    THEN [threw |-> FALSE,
          map |-> SetProp(map, value, Append(GetOwn(map, value), key))]
    ELSE IF value \in ObjectPrototypeNames
         THEN [threw |-> TRUE, map |-> map]
         ELSE [threw |-> FALSE, map |-> SetProp(map, value, <<key>>)]

\* Object.keys(obj)
ObjectKeys(obj) == [i \in 1..Len(obj) |-> obj[i].k]

-----------------------------------------------------------------------------
(* JavaScript strings and arrays.                                          *)

LowerOf(c) ==
    CASE c = "X" -> "x"
      [] c = "Z" -> "z"
      [] c = "A" -> "a"
      [] OTHER -> c

\* a toLowerCase that leaves the string as it is
ToLowerCaseUnchanged(s) == s

\* String.prototype.toLowerCase
RECURSIVE ToLowerCase(_)
ToLowerCase(s) ==
    IF s = "" THEN ""
    ELSE LowerOf(SubSeq(s, 1, 1)) \o ToLowerCase(SubSeq(s, 2, Len(s)))

\* the white space String.prototype.trim removes (of the characters used)
WhiteSpace == {" ", "\t", "\n", "\r"}

\* String.prototype.trim
RECURSIVE Trim(_)
Trim(s) ==
    IF s = "" THEN ""
    ELSE IF SubSeq(s, 1, 1) \in WhiteSpace THEN Trim(SubSeq(s, 2, Len(s)))
    ELSE IF SubSeq(s, Len(s), Len(s)) \in WhiteSpace
         THEN Trim(SubSeq(s, 1, Len(s) - 1))
         ELSE s

\* String.prototype.includes
Includes(s, sub) ==
    \E i \in 1..(Len(s) - Len(sub) + 1) : SubSeq(s, i, i + Len(sub) - 1) = sub

\* Array.prototype.join
RECURSIVE Join(_, _)
Join(strings, separator) ==
    IF strings = <<>> THEN ""
    ELSE IF Len(strings) = 1 THEN strings[1]
    ELSE strings[1] \o separator \o Join(Tail(strings), separator)

-----------------------------------------------------------------------------
(* Syntax trees (the part of the TypeScript AST the parser looks at).      *)

NoNode == [kind |-> "null"]

StringLiteral(text) ==
    [kind |-> "StringLiteral", text |-> text, properties |-> <<>>]

ObjectLiteralExpression(properties) ==
    [kind |-> "ObjectLiteralExpression", text |-> "", properties |-> properties]

NumericLiteral ==
    [kind |-> "NumericLiteral", text |-> "", properties |-> <<>>]

\* an object literal member: kind is the member's node kind, nameKind the
\* node kind of its name ("none" for a spread, which has no name)
Property(kind, nameKind, name, initializer) ==
    [kind |-> kind, nameKind |-> nameKind, name |-> name,
     initializer |-> initializer]

\* identifier: "string" and identifier: { ... }
Leaf(name, text) ==
    Property("PropertyAssignment", "Identifier", name, StringLiteral(text))

Nested(name, properties) ==
    Property("PropertyAssignment", "Identifier", name,
             ObjectLiteralExpression(properties))

\* the members without a nested object literal
LeafProps ==
    {Property("PropertyAssignment", "Identifier", "a", StringLiteral(v)) :
        v \in Values}
    \cup
    {Property("PropertyAssignment", "Identifier", n, StringLiteral("X")) :
        n \in Names \ {"a"}}
    \cup
    {Property("PropertyAssignment", "Identifier", "a", NumericLiteral),
     Property("PropertyAssignment", "StringLiteral", "a", StringLiteral("X")),
     Property("PropertyAssignment", "StringLiteral", "a", NumericLiteral),
     Property("PropertyAssignment", "ComputedPropertyName", "a",
              StringLiteral("X")),
     Property("ShorthandPropertyAssignment", "Identifier", "a", NoNode),
     Property("SpreadAssignment", "none", "", NoNode),
     Property("MethodDeclaration", "Identifier", "a", NoNode)}

\* the members holding the nested object literal with the given members
NestedProps(inner) ==
    {Property("PropertyAssignment", "Identifier", "a",
              ObjectLiteralExpression(inner))}

\* all member lists with exactly n members in total (nested ones included)
\* at nesting level `level`
RECURSIVE PropsAt(_, _)
PropsAt(n, level) ==
    IF n = 0 THEN {<<>>}
    ELSE {<<p>> \o rest : p \in LeafProps, rest \in PropsAt(n - 1, level)}
         \cup
         (IF level > MaxDepth THEN {}
          ELSE UNION {{<<p>> \o rest :
                          p \in UNION {NestedProps(inner) :
                                         inner \in PropsAt(m, level + 1)},
                          rest \in PropsAt(n - 1 - m, level)} :
                      m \in 0..(n - 1)})

\* the expressions a catalog may export that are not object literals
OtherRootNodes == {StringLiteral(v) : v \in Values} \cup {NumericLiteral}

(* Source positions.  The text is laid out one member per line, indented   *)
(* two columns per nesting level; a nested object literal has its opening  *)
(* brace on the line of its member and its closing brace on a line of its  *)
(* own.  Positions are 0-based, as getLineAndCharacterOfPosition reports.  *)

Pos(line, character) == [line |-> line, character |-> character]

\* `export default <root>` on the first line
RootPos == Pos(0, 15)

RECURSIVE LinesOfProps(_)
LinesOf(p) ==
    IF p.initializer.kind = "ObjectLiteralExpression"
    THEN 2 + LinesOfProps(p.initializer.properties)
    ELSE 1

LinesOfProps(ps) ==
    IF ps = <<>> THEN 0 ELSE LinesOf(Head(ps)) + LinesOfProps(Tail(ps))

\* property.getStart() of the i-th member of an object literal whose first
\* member is on line firstLine, at nesting level `level`
PropertyStart(properties, i, firstLine, level) ==
    Pos(firstLine + LinesOfProps(SubSeq(properties, 1, i - 1)), 2 * level)

\* top-level statements
ExportAssignment(expression) ==
    [kind |-> "ExportAssignment", expression |-> expression]

\* a file whose only statement is `export default <expression>`
ExportDefault(expression) == [statements |-> <<ExportAssignment(expression)>>]

\* a file without any statement
EmptyFile == [statements |-> <<>>]

\* one declaration of a variable statement; initializer is NoNode when the
\* declaration has none
VariableDeclaration(nameKind, name, initializer) ==
    [nameKind |-> nameKind, name |-> name, initializer |-> initializer]

VariableStatement(declarations) ==
    [kind |-> "VariableStatement", declarations |-> declarations]

\* `propertyName as name` between the braces of an export declaration;
\* propertyName is "" when the specifier has no `as`
ExportSpecifier(propertyName, name) ==
    [propertyName |-> propertyName, name |-> name]

\* `export { ... }`
NamedExports(elements) ==
    [kind |-> "ExportDeclaration", exportClause |-> "NamedExports",
     elements |-> elements]

\* the statements of the files that declare variables:
\*   var x = { a: "X" }          var z, y = { a: "Z" }
\*   export { x as default }     export { y as default }
\*   export { x }                export default "Z"
\*   export { default } from "./en"
ObjectX ==
    ObjectLiteralExpression(
        <<Property("PropertyAssignment", "Identifier", "a", StringLiteral("X"))>>)

ObjectZ ==
    ObjectLiteralExpression(
        <<Property("PropertyAssignment", "Identifier", "a", StringLiteral("Z"))>>)

DeclareX == VariableStatement(<<VariableDeclaration("Identifier", "x", ObjectX)>>)

DeclareZY ==
    VariableStatement(<<VariableDeclaration("Identifier", "z", NoNode),
                        VariableDeclaration("Identifier", "y", ObjectZ)>>)

TopLevelStatements ==
    {DeclareX, DeclareZY,
     NamedExports(<<ExportSpecifier("x", "default")>>),
     NamedExports(<<ExportSpecifier("y", "default")>>),
     NamedExports(<<ExportSpecifier("", "x")>>),
     NamedExports(<<ExportSpecifier("", "default")>>),
     ExportAssignment(StringLiteral("Z"))}

\* all statement lists of length n
RECURSIVE StatementLists(_)
StatementLists(n) ==
    IF n = 0 THEN {<<>>}
    ELSE {<<s>> \o rest : s \in TopLevelStatements, rest \in StatementLists(n - 1)}

\* the number of lines a statement takes: an object literal initializer has
\* its members on lines of their own, as an exported object literal has
StatementLines(statement) ==
    IF statement.kind = "VariableStatement"
    THEN LET last == statement.declarations[Len(statement.declarations)]
         IN  IF last.initializer.kind = "ObjectLiteralExpression"
             THEN 2 + LinesOfProps(last.initializer.properties)
             ELSE 1
    ELSE IF statement.kind = "ExportAssignment"
            /\ statement.expression.kind = "ObjectLiteralExpression"
         THEN 2 + LinesOfProps(statement.expression.properties)
         ELSE 1

RECURSIVE LinesBefore(_, _)
LinesBefore(statements, i) ==
    IF i <= 1 THEN 0
    ELSE LinesBefore(statements, i - 1) + StatementLines(statements[i - 1])

\* the column at which the initializer of the j-th declaration of
\* `var n1, n2, ... nj = <initializer>` starts, after declarations that
\* have no initializer
RECURSIVE InitializerColumn(_, _)
InitializerColumn(declarations, j) ==
    IF j = 1 THEN 4 + Len(declarations[1].name) + 3
    ELSE InitializerColumn(declarations, j - 1) - 1 + Len(declarations[j].name) + 3

-----------------------------------------------------------------------------
(* parser.ts                                                               *)

\* the filter of findDefaultExport: some `export { ... }` of the file has a
\* specifier whose exported name is default
HasDefaultSpecifier(statements) ==
    \E s \in 1..Len(statements) :
        /\ statements[s].kind = "ExportDeclaration"
        /\ statements[s].exportClause = "NamedExports"
        /\ \E e \in 1..Len(statements[s].elements) :
              statements[s].elements[e].name = "default"

\* the loop over the declarations of one variable statement: where the
\* result is found, its node and its start
RECURSIVE FindInDeclarations(_, _, _, _)
FindInDeclarations(statements, declarations, j, line) ==
    IF j > Len(declarations) THEN [node |-> NoNode, start |-> Pos(0, 0)]
    ELSE IF /\ declarations[j].initializer # NoNode
            /\ declarations[j].nameKind = "Identifier"
            /\ HasDefaultSpecifier(statements)
         THEN [node |-> declarations[j].initializer,
               start |-> Pos(line, InitializerColumn(declarations, j))]
         ELSE FindInDeclarations(statements, declarations, j + 1, line)

\* findDefaultExport: the loop over the statements from the i-th on
RECURSIVE FindDefaultExportFrom(_, _)
FindDefaultExportFrom(statements, i) ==
    IF i > Len(statements) THEN [node |-> NoNode, start |-> Pos(0, 0)]
    ELSE IF statements[i].kind = "ExportAssignment"
         THEN [node |-> statements[i].expression,
               start |-> Pos(LinesBefore(statements, i), RootPos.character)]
         ELSE IF /\ statements[i].kind = "VariableStatement"
                 /\ FindInDeclarations(statements, statements[i].declarations,
                                       1, LinesBefore(statements, i)).node # NoNode
              THEN FindInDeclarations(statements, statements[i].declarations,
                                      1, LinesBefore(statements, i))
              ELSE FindDefaultExportFrom(statements, i + 1)

findDefaultExport(sf) == FindDefaultExportFrom(sf.statements, 1).node

\* defaultExport.getStart(), as line and character
RootStart(sf) == FindDefaultExportFrom(sf.statements, 1).start

\* a ParseError; line and column are 0 when the code leaves them out
ParseError(message, line, column) ==
    [message |-> message, line |-> line, column |-> column]

\* sourceFile.getLineAndCharacterOfPosition(node.getStart()), made 1-based
ErrorAt(message, pos) == ParseError(message, pos.line + 1, pos.character + 1)

\* addTranslation: threw is TRUE when the push threw; keyToValue is written
\* only after the push
addTranslation(value, key, v2k, k2v) ==
    LET pushed == PushKey(v2k, value, key)
    IN  [threw |-> pushed.threw,
         valueToKeys |-> pushed.map,
         keyToValue |-> IF pushed.threw THEN k2v ELSE SetProp(k2v, key, value)]

\* the catch block of parseContent
CaughtError ==
    ParseError("Parse error: TypeError: valueToKeys[value].push is not a function",
               0, 0)

\* one activation of parseTranslationObject on an object literal: its
\* members, the loop index, the prefix, and where its first member starts
Frame(properties, prefix, firstLine, level) ==
    [properties |-> properties, i |-> 1, prefix |-> prefix,
     firstLine |-> firstLine, level |-> level]

Top == stack[Len(stack)]

\* the property the innermost loop is at
AtProperty == pc = "traverse" /\ stack # <<>> /\ Top.i <= Len(Top.properties)

Cur == Top.properties[Top.i]

CurStart == PropertyStart(Top.properties, Top.i, Top.firstLine, Top.level)

\* const fullKey = prefix ? `${prefix}.${key}` : key
FullKey(prefix, key) == IF prefix # "" THEN prefix \o "." \o key ELSE key

\* the loop moves on to the next property of the innermost object
Advance == [stack EXCEPT ![Len(stack)].i = @ + 1]

IsNamedAssignment(p) == p.kind = "PropertyAssignment" /\ p.nameKind = "Identifier"

\* validateTranslationFile has not been called
NotValidated == [called |-> FALSE, warnings |-> <<>>, errors |-> <<>>]

\* the extension is not activated while the parser is studied on its own
LifecycleIdle ==
    /\ watcher = FALSE
    /\ notifications = 0
    /\ microtasks = <<>>
    /\ phase = "listeners"
    /\ translationMap = EmptyObject
    /\ fileSystemProvider = [defined |-> FALSE, translationMap |-> EmptyObject]
    /\ viewTranslationMap = EmptyObject
    /\ view = "none"
    /\ resolved = {}
    /\ webviewReady = FALSE
    /\ pendingFocus = FALSE
    /\ readyViews = {}
    /\ unserved = FALSE
    /\ posted = <<>>
    /\ fsResult = [op |-> "none"]
    /\ lastSearchTerm = ""
    /\ lastSearchResults = <<>>
    /\ changes = 0
    /\ lastRead = [content |-> [kind |-> "missing", object |-> NoNode],
                   workspaceFolder |-> FALSE, started |-> FALSE]
    /\ lastCompleted = lastRead

\* the file at absPath: absent, or present with the text whose syntax tree
\* sourceFile is
NoFileOnDisk == [kind |-> "missing", object |-> NoNode]

FileOnDisk == [kind |-> "text", object |-> NoNode]

\* path.resolve(workspaceFolders[0].uri.fsPath, filePath)
AbsPath == "/workspace/src/i18n/en.ts"

\* parseTranslationFile is called with the file present in a workspace
\* folder, or without a workspace folder, or with the file missing
InitParser ==
    /\ \/ /\ workspaceFolders = TRUE
          /\ fileContent = FileOnDisk
          /\ \/ \E n \in 0..MaxProps : \E properties \in PropsAt(n, 1) :
                   sourceFile = ExportDefault(ObjectLiteralExpression(properties))
             \/ \E root \in OtherRootNodes : sourceFile = ExportDefault(root)
             \/ sourceFile = EmptyFile
             \/ \E n \in 1..MaxStatements : \E statements \in StatementLists(n) :
                   sourceFile = [statements |-> statements]
       \/ /\ workspaceFolders \in BOOLEAN
          /\ fileContent \in {NoFileOnDisk, FileOnDisk}
          /\ ~workspaceFolders \/ fileContent = NoFileOnDisk
          /\ sourceFile = EmptyFile
    /\ pc = "parseTranslationFile"
    /\ stack = <<>>
    /\ valueToKeys = EmptyObject
    /\ keyToValue = EmptyObject
    /\ errors = <<>>
    /\ validation = NotValidated
    /\ parses = <<>>
    /\ LifecycleIdle

\* `Failed to parse translation file: ${error}` for the Error thrown in the
\* try block of parseTranslationFile
FailedToParse ==
    "Failed to parse translation file: Error: "
       \o (IF ~workspaceFolders THEN "No workspace folder found"
           ELSE "Translation file not found: " \o AbsPath)

\* a parseTranslationFile without the try/catch: the Error reaches the caller
ParseTranslationFileRethrows ==
    /\ pc = "parseTranslationFile"
    /\ ~workspaceFolders \/ fileContent.kind = "missing"
    /\ pc' = "threw"
    /\ UNCHANGED <<lifecycleVars, validation, parses, sourceFile, stack, valueToKeys, keyToValue,
                   errors>>

\* parseTranslationFile without a workspace folder or without the file: the
\* throw is caught and a result with one diagnostic is returned
ParseTranslationFileFails ==
    /\ pc = "parseTranslationFile"
    /\ ~workspaceFolders \/ fileContent.kind = "missing"
    /\ valueToKeys' = EmptyObject
    /\ keyToValue' = EmptyObject
    /\ errors' = <<ParseError(FailedToParse, 0, 0)>>
    /\ pc' = "returned"
    /\ UNCHANGED <<lifecycleVars, validation, parses, sourceFile, stack>>

\* a parseContent that builds on maps and errors kept from the call before
ReadFileSyncKeepingMaps ==
    /\ pc = "parseTranslationFile"
    /\ workspaceFolders
    /\ fileContent.kind # "missing"
    /\ pc' = "parseContent"
    /\ UNCHANGED <<lifecycleVars, validation, parses, sourceFile, stack,
                   valueToKeys, keyToValue, errors>>

\* parseTranslationFile reads the file and calls parseContent, which starts
\* with an empty errors array and two empty maps of its own
ReadFileSync ==
    /\ pc = "parseTranslationFile"
    /\ workspaceFolders
    /\ fileContent.kind # "missing"
    /\ errors' = <<>>
    /\ valueToKeys' = EmptyObject
    /\ keyToValue' = EmptyObject
    /\ pc' = "parseContent"
    /\ UNCHANGED <<lifecycleVars, validation, parses, sourceFile, stack>>

\* parseContent, no default export: one diagnostic and an early return
ParseNoDefaultExport ==
    /\ pc = "parseContent"
    /\ findDefaultExport(sourceFile) = NoNode
    /\ errors' = Append(errors,
                   ParseError("No default export found in translation file", 0, 0))
    /\ pc' = "returned"
    /\ UNCHANGED <<lifecycleVars, validation, parses, sourceFile, stack, valueToKeys, keyToValue>>

\* parseTranslationObject(root, ""), root an object literal: enter its loop
ParseRootObject ==
    /\ pc = "parseContent"
    /\ findDefaultExport(sourceFile).kind = "ObjectLiteralExpression"
    /\ stack' = <<Frame(findDefaultExport(sourceFile).properties, "",
                         RootStart(sourceFile).line + 1, 1)>>
    /\ pc' = "traverse"
    /\ UNCHANGED <<lifecycleVars, validation, parses, sourceFile, valueToKeys, keyToValue, errors>>

\* parseTranslationObject(root, ""), root a string literal
ParseRootString ==
    /\ pc = "parseContent"
    /\ findDefaultExport(sourceFile).kind = "StringLiteral"
    /\ LET r == addTranslation(findDefaultExport(sourceFile).text, "",
                               valueToKeys, keyToValue)
       IN  /\ valueToKeys' = r.valueToKeys
           /\ keyToValue' = r.keyToValue
           /\ errors' = IF r.threw THEN Append(errors, CaughtError) ELSE errors
    /\ pc' = "returned"
    /\ UNCHANGED <<lifecycleVars, validation, parses, sourceFile, stack>>

\* parseTranslationObject(root, ""), root neither object nor string
ParseRootOther ==
    /\ pc = "parseContent"
    /\ findDefaultExport(sourceFile).kind \notin
          {"null", "ObjectLiteralExpression", "StringLiteral"}
    /\ errors' = Append(errors,
          ErrorAt("Unexpected node type in translation object: "
                     \o findDefaultExport(sourceFile).kind,
                  RootStart(sourceFile)))
    /\ pc' = "returned"
    /\ UNCHANGED <<lifecycleVars, validation, parses, sourceFile, stack, valueToKeys, keyToValue>>

\* identifier: "string": addTranslation; a throw unwinds to parseContent's
\* catch, which records it and returns
VisitStringLeaf ==
    /\ AtProperty
    /\ IsNamedAssignment(Cur)
    /\ Cur.initializer.kind = "StringLiteral"
    /\ LET r == addTranslation(Cur.initializer.text,
                               FullKey(Top.prefix, Cur.name),
                               valueToKeys, keyToValue)
       IN  /\ valueToKeys' = r.valueToKeys
           /\ keyToValue' = r.keyToValue
           /\ IF r.threw
              THEN /\ errors' = Append(errors, CaughtError)
                   /\ stack' = <<>>
                   /\ pc' = "returned"
              ELSE /\ errors' = errors
                   /\ stack' = Advance
                   /\ pc' = pc
    /\ UNCHANGED <<lifecycleVars, validation, parses, sourceFile>>

\* identifier: { ... }: recursive call with the extended prefix
VisitNestedObject ==
    /\ AtProperty
    /\ IsNamedAssignment(Cur)
    /\ Cur.initializer.kind = "ObjectLiteralExpression"
    /\ stack' = Append(Advance,
                       Frame(Cur.initializer.properties,
                             FullKey(Top.prefix, Cur.name),
                             CurStart.line + 1, Top.level + 1))
    /\ UNCHANGED <<lifecycleVars, validation, parses, sourceFile, pc, valueToKeys, keyToValue, errors>>

\* identifier: anything else
VisitInvalidValue ==
    /\ AtProperty
    /\ IsNamedAssignment(Cur)
    /\ Cur.initializer.kind \notin {"StringLiteral", "ObjectLiteralExpression"}
    /\ errors' = Append(errors,
          ErrorAt("Invalid translation value for key '"
                     \o FullKey(Top.prefix, Cur.name)
                     \o "': must be string or object", CurStart))
    /\ stack' = Advance
    /\ UNCHANGED <<lifecycleVars, validation, parses, sourceFile, pc, valueToKeys, keyToValue>>

\* a traversal that puts the diagnostic of a shorthand member before the
\* diagnostics collected so far
VisitShorthandPrepending ==
    /\ AtProperty
    /\ ~IsNamedAssignment(Cur)
    /\ Cur.kind = "ShorthandPropertyAssignment"
    /\ errors' =
          <<ErrorAt("Shorthand properties not supported in translation objects",
                    CurStart)>> \o errors
    /\ stack' = Advance
    /\ UNCHANGED <<lifecycleVars, validation, parses, sourceFile, pc,
                   valueToKeys, keyToValue>>

VisitShorthand ==
    /\ AtProperty
    /\ ~IsNamedAssignment(Cur)
    /\ Cur.kind = "ShorthandPropertyAssignment"
    /\ errors' = Append(errors,
          ErrorAt("Shorthand properties not supported in translation objects",
                  CurStart))
    /\ stack' = Advance
    /\ UNCHANGED <<lifecycleVars, validation, parses, sourceFile, pc, valueToKeys, keyToValue>>

\* a traversal that skips spread members without a diagnostic
VisitSpreadSilently ==
    /\ AtProperty
    /\ ~IsNamedAssignment(Cur)
    /\ Cur.kind = "SpreadAssignment"
    /\ stack' = Advance
    /\ UNCHANGED <<lifecycleVars, validation, parses, sourceFile, pc, valueToKeys, keyToValue, errors>>

VisitSpread ==
    /\ AtProperty
    /\ ~IsNamedAssignment(Cur)
    /\ Cur.kind = "SpreadAssignment"
    /\ errors' = Append(errors,
          ErrorAt("Spread assignments not supported in translation objects",
                  CurStart))
    /\ stack' = Advance
    /\ UNCHANGED <<lifecycleVars, validation, parses, sourceFile, pc, valueToKeys, keyToValue>>

VisitComputed ==
    /\ AtProperty
    /\ ~IsNamedAssignment(Cur)
    /\ Cur.kind \notin {"ShorthandPropertyAssignment", "SpreadAssignment"}
    /\ Cur.nameKind = "ComputedPropertyName"
    /\ errors' = Append(errors,
          ErrorAt("Computed property names not supported in translation objects",
                  CurStart))
    /\ stack' = Advance
    /\ UNCHANGED <<lifecycleVars, validation, parses, sourceFile, pc, valueToKeys, keyToValue>>

\* no branch of the if/else-if chain matches: the loop just moves on
VisitUnmatched ==
    /\ AtProperty
    /\ ~IsNamedAssignment(Cur)
    /\ Cur.kind \notin {"ShorthandPropertyAssignment", "SpreadAssignment"}
    /\ Cur.nameKind # "ComputedPropertyName"
    /\ stack' = Advance
    /\ UNCHANGED <<lifecycleVars, validation, parses, sourceFile, pc, valueToKeys, keyToValue, errors>>

\* the loop over an object literal is finished: return to the caller, and
\* from the outermost call to parseContent, which returns the result
ReturnFromObject ==
    /\ pc = "traverse"
    /\ stack # <<>>
    /\ Top.i > Len(Top.properties)
    /\ stack' = SubSeq(stack, 1, Len(stack) - 1)
    /\ pc' = IF Len(stack) = 1 THEN "returned" ELSE pc
    /\ UNCHANGED <<lifecycleVars, validation, parses, sourceFile, valueToKeys, keyToValue, errors>>

\* a ParsedTranslationFile
ParsedTranslationFile(v2k, k2v, errs) ==
    [valueToKeys |-> v2k, keyToValue |-> k2v, errors |-> errs]

\* values longer than this are reported as very long
MaxValueLength == 200

\* Object.entries(parsed.valueToKeys).filter(([, keys]) => keys.length > 1)
DuplicateValues(parsed) ==
    SelectSeq(parsed.valueToKeys, LAMBDA entry : Len(entry.v) > 1)

\* a filter that takes only the values that are empty as they stand
EmptyValuesUntrimmed(parsed) ==
    SelectSeq(parsed.keyToValue, LAMBDA entry : entry.v = "")

\* Object.entries(parsed.keyToValue).filter(([, value]) => value.trim() === "")
EmptyValues(parsed) ==
    SelectSeq(parsed.keyToValue, LAMBDA entry : Trim(entry.v) = "")

\* a filter that takes the values of MaxValueLength characters too
LongValuesInclusive(parsed) ==
    SelectSeq(parsed.keyToValue, LAMBDA entry : Len(entry.v) >= MaxValueLength)

\* Object.entries(parsed.keyToValue).filter(([, value]) => value.length > 200)
LongValues(parsed) ==
    SelectSeq(parsed.keyToValue, LAMBDA entry : Len(entry.v) > MaxValueLength)

\* duplicateValues.map(([value]) => `"${value}"`)
QuotedValues(entries) ==
    [i \in 1..Len(entries) |-> "\"" \o entries[i].k \o "\""]

\* emptyValues.map(([key]) => key)
KeysOf(entries) == [i \in 1..Len(entries) |-> entries[i].k]

\* validateTranslationFile: the three checks, each pushing one warning
validateTranslationFile(parsed) ==
    [called |-> TRUE,
     warnings |->
        (IF Len(DuplicateValues(parsed)) > 0
         THEN <<"Found " \o ToString(Len(DuplicateValues(parsed)))
                  \o " duplicate translation values: "
                  \o Join(QuotedValues(DuplicateValues(parsed)), ", ")>>
         ELSE <<>>)
        \o
        (IF Len(EmptyValues(parsed)) > 0
         THEN <<"Found " \o ToString(Len(EmptyValues(parsed)))
                  \o " empty translation values: "
                  \o Join(KeysOf(EmptyValues(parsed)), ", ")>>
         ELSE <<>>)
        \o
        (IF Len(LongValues(parsed)) > 0
         THEN <<"Found " \o ToString(Len(LongValues(parsed)))
                  \o " very long translation values (>"
                  \o ToString(MaxValueLength) \o " chars)">>
         ELSE <<>>),
     errors |-> <<>>]

\* the caller hands the result of the parse to validateTranslationFile
Validate ==
    /\ pc = "returned"
    /\ ~validation.called
    /\ validation' = validateTranslationFile(
                        ParsedTranslationFile(valueToKeys, keyToValue, errors))
    /\ UNCHANGED <<lifecycleVars, parses, sourceFile, pc, stack, valueToKeys,
                   keyToValue, errors>>

NextParser ==
    \/ ParseTranslationFileFails
    \/ ReadFileSync
    \/ ParseNoDefaultExport
    \/ ParseRootObject
    \/ ParseRootString
    \/ ParseRootOther
    \/ VisitStringLeaf
    \/ VisitNestedObject
    \/ VisitInvalidValue
    \/ VisitShorthand
    \/ VisitSpread
    \/ VisitComputed
    \/ VisitUnmatched
    \/ ReturnFromObject
    \/ Validate

SpecParser == InitParser /\ [][NextParser]_vars

-----------------------------------------------------------------------------
(* The validator on catalogs with blank and long values.                   *)

\* number of members of the flat object literals handed to the validator
MaxLeaves == 3

\* String.prototype.repeat
RECURSIVE Repeat(_, _)
Repeat(s, count) == IF count = 0 THEN "" ELSE s \o Repeat(s, count - 1)

\* the values of the leaves: empty, blank, plain, and of the longest length
\* not reported and the shortest reported
ValidatedValues ==
    {"", " ", "X", Repeat("y", MaxValueLength), Repeat("y", MaxValueLength + 1)}

ValidatedNames == {"a", "b"}

\* all lists of n identifier: "string" members
RECURSIVE LeafLists(_)
LeafLists(n) ==
    IF n = 0 THEN {<<>>}
    ELSE {<<Property("PropertyAssignment", "Identifier", name,
                     StringLiteral(value))>> \o rest :
             name \in ValidatedNames, value \in ValidatedValues,
             rest \in LeafLists(n - 1)}

InitValidator ==
    /\ workspaceFolders = TRUE
    /\ fileContent = FileOnDisk
    /\ \E n \in 0..MaxLeaves : \E properties \in LeafLists(n) :
          sourceFile = ExportDefault(ObjectLiteralExpression(properties))
    /\ pc = "parseTranslationFile"
    /\ stack = <<>>
    /\ valueToKeys = EmptyObject
    /\ keyToValue = EmptyObject
    /\ errors = <<>>
    /\ validation = NotValidated
    /\ parses = <<>>
    /\ LifecycleIdle

\* the steps of the parser these files take, and the validation
NextValidator ==
    \/ ReadFileSync
    \/ ParseRootObject
    \/ VisitStringLeaf
    \/ ReturnFromObject
    \/ Validate

SpecValidator == InitValidator /\ [][NextValidator]_vars

-----------------------------------------------------------------------------
(* One TranslationParser parsing several files, one after the other.       *)

\* number of parses after the first
MaxParses == 3

\* the files parsed:
\*   export default { a: "X", b: "X" }     export default { a, b: "Z" }
\*   export default { a: "constructor", b: "X" }      and the empty file
ReparsedFiles ==
    {ExportDefault(ObjectLiteralExpression(<<Leaf("a", "X"), Leaf("b", "X")>>)),
     ExportDefault(ObjectLiteralExpression(
        <<Property("ShorthandPropertyAssignment", "Identifier", "a", NoNode),
          Leaf("b", "Z")>>)),
     ExportDefault(ObjectLiteralExpression(
        <<Leaf("a", "constructor"), Leaf("b", "X")>>)),
     EmptyFile}

InitReparse ==
    /\ workspaceFolders = TRUE
    /\ fileContent = FileOnDisk
    /\ sourceFile \in ReparsedFiles
    /\ pc = "parseTranslationFile"
    /\ stack = <<>>
    /\ valueToKeys = EmptyObject
    /\ keyToValue = EmptyObject
    /\ errors = <<>>
    /\ validation = NotValidated
    /\ parses = <<>>
    /\ LifecycleIdle

\* the caller keeps the result it was returned and calls
\* parseTranslationFile of the same TranslationParser for a file with the
\* text of sf
ParseAgain(sf) ==
    /\ pc = "returned"
    /\ Len(parses) < MaxParses
    /\ parses' = Append(parses,
          [sourceFile |-> sourceFile,
           result |-> ParsedTranslationFile(valueToKeys, keyToValue, errors)])
    /\ sourceFile' = sf
    /\ pc' = "parseTranslationFile"
    /\ UNCHANGED <<lifecycleVars, validation, stack, valueToKeys, keyToValue,
                   errors>>

NextReparse ==
    \/ ReadFileSync
    \/ ParseNoDefaultExport
    \/ ParseRootObject
    \/ VisitStringLeaf
    \/ VisitShorthand
    \/ ReturnFromObject
    \/ \E sf \in ReparsedFiles : ParseAgain(sf)

SpecReparse == InitReparse /\ [][NextReparse]_vars

-----------------------------------------------------------------------------
(* activate.ts: loading the catalog.                                       *)

\* what the translation file may hold: nothing (the file does not exist), a
\* text without `export default {`, or `export default` of an object literal
\* of identifier: "string" and identifier: { ... } members
FileMissing == [kind |-> "missing", object |-> NoNode]

FileNoDefaultExport == [kind |-> "noDefaultExport", object |-> NoNode]

FileCatalog(properties) ==
    [kind |-> "catalog", object |-> ObjectLiteralExpression(properties)]

CatalogX == FileCatalog(<<Leaf("a", "X")>>)

CatalogZ == FileCatalog(<<Leaf("a", "Z")>>)

CatalogNested == FileCatalog(<<Leaf("a", "X"), Nested("b", <<Leaf("c", "X")>>)>>)

Catalogs == {CatalogX, CatalogZ, CatalogNested}

FileContents == {FileMissing, FileNoDefaultExport} \cup Catalogs

\* the texts typed into the search box
SearchTexts == {"", " ", "x", "Z"}

\* a JavaScript value: a string or a plain object
JsString(text) == [type |-> "string", text |-> text, entries |-> <<>>]

JsObject(entries) == [type |-> "object", text |-> "", entries |-> entries]

\* result[key] = value on an object under construction by JSON.parse or by
\* the AST walk: a repeated key keeps its place and takes the later value
DefineProp(entries, k, v) ==
    IF HasOwn(entries, k)
    THEN [entries EXCEPT ![IndexOf(entries, k)] = [k |-> k, v |-> v]]
    ELSE Append(entries, [k |-> k, v |-> v])

\* parseObjectLiteral, for object literals of identifier-named members with
\* string and object literal values
RECURSIVE ParseProperties(_, _, _)
parseObjectLiteral(node) ==
    IF node.kind = "StringLiteral" THEN JsString(node.text)
    ELSE JsObject(ParseProperties(node.properties, 1, <<>>))

ParseProperties(properties, i, entries) ==
    IF i > Len(properties) THEN entries
    ELSE ParseProperties(properties, i + 1,
            DefineProp(entries, properties[i].name,
                       parseObjectLiteral(properties[i].initializer)))

\* flatten(obj, prefix) of loadTranslations, writing to map; threw is TRUE
\* when the push threw, which ends the walk
RECURSIVE FlattenEntries(_, _, _, _)
flatten(obj, prefix, map) ==
    IF obj.type = "string" THEN PushKey(map, obj.text, prefix)
    ELSE FlattenEntries(obj.entries, 1, prefix, map)

FlattenEntries(entries, i, prefix, map) ==
    IF i > Len(entries) THEN [threw |-> FALSE, map |-> map]
    ELSE LET r == flatten(entries[i].v, FullKey(prefix, entries[i].k), map)
         IN  IF r.threw THEN r
             ELSE FlattenEntries(entries, i + 1, prefix, r.map)

\* the return value of loadTranslations; failed tells that it comes from the
\* catch block, which the caller cannot see
LoadFailed == [map |-> EmptyObject, failed |-> TRUE]

loadTranslations(content, hasWorkspaceFolder) ==
    IF ~hasWorkspaceFolder THEN LoadFailed
    ELSE IF content.kind = "missing" THEN LoadFailed
    ELSE IF content.kind = "noDefaultExport" THEN LoadFailed
    ELSE LET r == flatten(parseObjectLiteral(content.object), "", EmptyObject)
         IN  IF r.threw THEN LoadFailed
             ELSE [map |-> r.map, failed |-> FALSE]

-----------------------------------------------------------------------------
(* activate.ts: the search view provider's query.                          *)

SearchResult(key, value) ==
    [key |-> key, label |-> "t(\"" \o key \o "\") → " \o value, value |-> value]

\* keys.forEach((key) => results.push({ key, label, value }))
ResultsOf(value, keys) == [j \in 1..Len(keys) |-> SearchResult(keys[j], value)]

\* findTranslations over the entries from the i-th on
RECURSIVE FindFrom(_, _, _)
FindFrom(map, i, searchText) ==
    IF i > Len(map) THEN <<>>
    ELSE (IF Trim(searchText) = ""
             \/ Includes(ToLowerCase(map[i].k), ToLowerCase(searchText))
          THEN ResultsOf(map[i].k, map[i].v)
          ELSE <<>>)
         \o FindFrom(map, i + 1, searchText)

findTranslations(map, searchText) == FindFrom(map, 1, searchText)

-----------------------------------------------------------------------------
(* activate.ts: activation, the file watcher and the search view.          *)

NoRead == [content |-> FileMissing, workspaceFolder |-> FALSE, started |-> FALSE]

ReadOf(content, hasWorkspaceFolder) ==
    [content |-> content, workspaceFolder |-> hasWorkspaceFolder, started |-> TRUE]

\* a suspended async function: what resumes, the value its await yields,
\* and what loadTranslations had read
Continuation(kind, result, read) == [kind |-> kind, result |-> result, read |-> read]

ParserIdle ==
    /\ sourceFile = EmptyFile
    /\ pc = "idle"
    /\ stack = <<>>
    /\ valueToKeys = EmptyObject
    /\ keyToValue = EmptyObject
    /\ errors = <<>>
    /\ validation = NotValidated
    /\ parses = <<>>

\* the state when activate() returns: initializeExtension has run up to its
\* await (loadTranslations itself never suspends), setupFileWatcher has
\* created the watcher if there is a workspace folder, and the search view
\* provider has been given the empty map
InitLifecycle ==
    /\ ParserIdle
    /\ fileContent \in FileContents
    /\ workspaceFolders \in BOOLEAN
    /\ watcher = workspaceFolders
    /\ notifications = 0
    /\ microtasks = <<Continuation("initializeExtension",
                                   loadTranslations(fileContent, workspaceFolders),
                                   NoRead)>>
    /\ phase = "microtasks"
    /\ translationMap = EmptyObject
    /\ fileSystemProvider = [defined |-> FALSE, translationMap |-> EmptyObject]
    /\ viewTranslationMap = EmptyObject
    /\ view = "none"
    /\ resolved = {}
    /\ webviewReady = FALSE
    /\ pendingFocus = FALSE
    /\ readyViews = {}
    /\ unserved = FALSE
    /\ posted = <<>>
    /\ fsResult = [op |-> "none"]
    /\ lastSearchTerm = ""
    /\ lastSearchResults = <<>>
    /\ changes = 0
    /\ lastRead = NoRead
    /\ lastCompleted = NoRead

\* the two views the provider is registered for
Views == {"sidebar", "panel"}

\* webview.postMessage(...) of the view `to`
Message(to, type, searchTerm, results) ==
    [to |-> to, type |-> type, searchTerm |-> searchTerm, results |-> results]

\* I18nSearchViewProvider.updateResults: what is posted last afterwards
updateResults ==
    IF view # "none"
    THEN <<Message(view, "translationsUpdated", "", <<>>)>>
    ELSE posted

\* another program writes the file; a write to an existing file is a change
\* the watcher reports, a write that creates the file is not
WriteFile(content) ==
    /\ changes < MaxChanges
    /\ content.kind # "missing"
    /\ fileContent' = content
    /\ changes' = changes + 1
    /\ notifications' = IF watcher /\ fileContent.kind # "missing"
                        THEN notifications + 1 ELSE notifications
    /\ UNCHANGED <<parserVars, fsResult, focusVars, resolved, posted, phase, workspaceFolders, watcher, microtasks,
                   translationMap, fileSystemProvider, viewTranslationMap,
                   view, lastSearchTerm, lastSearchResults, lastRead,
                   lastCompleted>>

\* another program deletes the file
DeleteFile ==
    /\ fileContent.kind # "missing"
    /\ changes < MaxChanges
    /\ fileContent' = FileMissing
    /\ changes' = changes + 1
    /\ UNCHANGED <<parserVars, fsResult, focusVars, resolved, posted, phase, workspaceFolders, watcher, notifications,
                   microtasks, translationMap, fileSystemProvider,
                   viewTranslationMap, view, lastSearchTerm, lastSearchResults,
                   lastRead, lastCompleted>>

\* the user removes the last workspace folder, or adds one
ChangeWorkspaceFolders ==
    /\ phase = "listeners"
    /\ workspaceFolders' = ~workspaceFolders
    /\ UNCHANGED <<parserVars, fsResult, focusVars, resolved, posted, phase, fileContent, watcher, notifications, microtasks,
                   translationMap, fileSystemProvider, viewTranslationMap,
                   view, lastSearchTerm, lastSearchResults, changes, lastRead,
                   lastCompleted>>

\* watcher.onDidChange listener up to its await: loadTranslations reads and
\* flattens the file synchronously, the rest of the listener is queued.
\* The host calls listeners while no continuation has started to run;
\* nothing in the listener keeps the host from calling it for a second
\* notification in the same turn, before the queued rest has run.
OnDidChange ==
    /\ phase = "listeners"
    /\ notifications > 0
    /\ notifications' = notifications - 1
    /\ microtasks' = Append(microtasks,
          Continuation("onDidChange",
                       loadTranslations(fileContent, workspaceFolders),
                       ReadOf(fileContent, workspaceFolders)))
    /\ lastRead' = ReadOf(fileContent, workspaceFolders)
    /\ UNCHANGED <<parserVars, fsResult, focusVars, resolved, posted, phase, fileContent, workspaceFolders, watcher,
                   translationMap, fileSystemProvider, viewTranslationMap,
                   view, lastSearchTerm, lastSearchResults, changes,
                   lastCompleted>>

\* Object.assign(target, source)
RECURSIVE AssignFrom(_, _, _)
AssignFrom(target, source, i) ==
    IF i > Len(source) THEN target
    ELSE AssignFrom(SetProp(target, source[i].k, source[i].v), source, i + 1)

\* an updateTranslations that writes the new entries into the map it holds
UpdateTranslationsInPlace(oldMap, newMap) == AssignFrom(oldMap, newMap, 1)

\* I18nSearchViewProvider.updateTranslations: the map the provider holds next
UpdateTranslations(oldMap, newMap) == newMap

\* once a continuation has run, the queue is run until it is empty before
\* the host calls another listener
PhaseAfter(queue) == IF queue = <<>> THEN "listeners" ELSE "microtasks"

\* the rest of the onDidChange listener: assign translationMap and hand the
\* map to both providers
ResumeOnDidChange ==
    /\ microtasks # <<>>
    /\ Head(microtasks).kind = "onDidChange"
    /\ microtasks' = Tail(microtasks)
    /\ translationMap' = Head(microtasks).result.map
    /\ fileSystemProvider' =
          IF fileSystemProvider.defined
          THEN [defined |-> TRUE,
                translationMap |-> Head(microtasks).result.map]
          ELSE fileSystemProvider
    /\ viewTranslationMap' =
          UpdateTranslations(viewTranslationMap, Head(microtasks).result.map)
    /\ lastCompleted' = Head(microtasks).read
    /\ phase' = PhaseAfter(Tail(microtasks))
    /\ posted' = updateResults
    /\ UNCHANGED <<parserVars, fsResult, focusVars, resolved, fileContent, workspaceFolders, watcher,
                   notifications, view, lastSearchTerm, lastSearchResults,
                   changes, lastRead>>

\* the rest of initializeExtension: assign translationMap and create the
\* file system provider; its promise resolves, which queues the then-callback
ResumeInitializeExtension ==
    /\ microtasks # <<>>
    /\ Head(microtasks).kind = "initializeExtension"
    /\ translationMap' = Head(microtasks).result.map
    /\ fileSystemProvider' =
          [defined |-> TRUE, translationMap |-> Head(microtasks).result.map]
    /\ microtasks' = Append(Tail(microtasks),
                            Continuation("then", LoadFailed, NoRead))
    /\ phase' = "microtasks"
    /\ UNCHANGED <<parserVars, fsResult, focusVars, resolved, posted, fileContent, workspaceFolders, watcher,
                   notifications, viewTranslationMap, view, lastSearchTerm,
                   lastSearchResults, changes, lastRead, lastCompleted>>

\* a then-callback that publishes the empty map once more
InitializeExtensionThenEmpty ==
    /\ microtasks # <<>>
    /\ Head(microtasks).kind = "then"
    /\ microtasks' = Tail(microtasks)
    /\ viewTranslationMap' = UpdateTranslations(viewTranslationMap, EmptyObject)
    /\ phase' = PhaseAfter(Tail(microtasks))
    /\ posted' = updateResults
    /\ UNCHANGED <<parserVars, fsResult, focusVars, resolved, fileContent, workspaceFolders, watcher,
                   notifications, translationMap, fileSystemProvider, view,
                   lastSearchTerm, lastSearchResults, changes, lastRead,
                   lastCompleted>>

\* initializeExtension().then(...): hand translationMap to the search view
InitializeExtensionThen ==
    /\ microtasks # <<>>
    /\ Head(microtasks).kind = "then"
    /\ microtasks' = Tail(microtasks)
    /\ viewTranslationMap' = UpdateTranslations(viewTranslationMap, translationMap)
    /\ phase' = PhaseAfter(Tail(microtasks))
    /\ posted' = updateResults
    /\ UNCHANGED <<parserVars, fsResult, focusVars, resolved, fileContent, workspaceFolders, watcher,
                   notifications, translationMap, fileSystemProvider, view,
                   lastSearchTerm, lastSearchResults, changes, lastRead,
                   lastCompleted>>

\* resolveWebviewView: the provider keeps the view it is given, posts
\* "initialized" to it and registers the handler of its messages
ResolveWebviewView(v) ==
    /\ phase = "listeners"
    /\ v \notin resolved
    /\ view' = v
    /\ resolved' = resolved \cup {v}
    /\ posted' = <<Message(v, "initialized", "", <<>>)>>
    /\ UNCHANGED <<parserVars, fsResult, focusVars, phase, fileContent,
                   workspaceFolders, watcher, notifications, microtasks,
                   translationMap, fileSystemProvider, viewTranslationMap,
                   lastSearchTerm, lastSearchResults, changes, lastRead,
                   lastCompleted>>

\* the webview of v sends { type: "search", text }: the query, the reply to
\* v and saveSearchState
Search(v, text) ==
    /\ phase = "listeners"
    /\ v \in resolved
    /\ lastSearchTerm' = text
    /\ lastSearchResults' = findTranslations(viewTranslationMap, text)
    /\ posted' = <<Message(v, "results", text,
                           findTranslations(viewTranslationMap, text))>>
    /\ UNCHANGED <<parserVars, fsResult, focusVars, phase, fileContent,
                   workspaceFolders, watcher, notifications, microtasks,
                   translationMap, fileSystemProvider, viewTranslationMap,
                   view, resolved, changes, lastRead, lastCompleted>>

NextLifecycle ==
    \/ \E content \in FileContents : WriteFile(content)
    \/ DeleteFile
    \/ ChangeWorkspaceFolders
    \/ OnDidChange
    \/ ResumeOnDidChange
    \/ ResumeInitializeExtension
    \/ InitializeExtensionThen
    \/ ResolveWebviewView("sidebar")
    \/ \E text \in SearchTexts : Search("sidebar", text)

SpecLifecycle == InitLifecycle /\ [][NextLifecycle]_vars

-----------------------------------------------------------------------------
(* What the exported tree contains, read off the tree alone.               *)

\* the expression parseContent traverses
Root == findDefaultExport(sourceFile)

HasObjectRoot == Root.kind = "ObjectLiteralExpression"

\* the string leaves below a member list, depth first and left to right,
\* each with the dot-joined path of the identifiers leading to it
RECURSIVE StringLeaves(_, _)
StringLeaves(properties, prefix) ==
    IF properties = <<>> THEN <<>>
    ELSE LET p == Head(properties)
             here == IF ~IsNamedAssignment(p) THEN <<>>
                     ELSE IF p.initializer.kind = "StringLiteral"
                          THEN <<[key |-> FullKey(prefix, p.name),
                                  value |-> p.initializer.text]>>
                          ELSE IF p.initializer.kind = "ObjectLiteralExpression"
                               THEN StringLeaves(p.initializer.properties,
                                                 FullKey(prefix, p.name))
                               ELSE <<>>
         IN  here \o StringLeaves(Tail(properties), prefix)

\* shorthand, spread and computed-name members
IsRejectedSyntax(p) ==
    \/ p.kind = "ShorthandPropertyAssignment"
    \/ p.kind = "SpreadAssignment"
    \/ p.nameKind = "ComputedPropertyName"

\* a member with a value that is neither a string nor an object literal
HasInvalidValue(p) ==
    /\ p.kind = "PropertyAssignment"
    /\ p.initializer.kind \notin {"StringLiteral", "ObjectLiteralExpression"}

\* the start positions of the members the traversal has a diagnostic for,
\* depth first and left to right
RECURSIVE DiagnosedStarts(_, _, _, _)
DiagnosedStarts(properties, i, firstLine, level) ==
    IF i > Len(properties) THEN <<>>
    ELSE LET p == properties[i]
             start == PropertyStart(properties, i, firstLine, level)
             here == IF IsNamedAssignment(p)
                     THEN IF p.initializer.kind = "ObjectLiteralExpression"
                          THEN DiagnosedStarts(p.initializer.properties, 1,
                                               start.line + 1, level + 1)
                          ELSE IF p.initializer.kind = "StringLiteral"
                               THEN <<>>
                               ELSE <<start>>
                     ELSE IF IsRejectedSyntax(p) THEN <<start>> ELSE <<>>
         IN  here \o DiagnosedStarts(properties, i + 1, firstLine, level)

\* every member list of the tree has only identifier: "string" and
\* identifier: { ... } members
RECURSIVE OnlyStringLeaves(_)
OnlyStringLeaves(properties) ==
    \A i \in 1..Len(properties) :
        /\ IsNamedAssignment(properties[i])
        /\ \/ properties[i].initializer.kind = "StringLiteral"
           \/ /\ properties[i].initializer.kind = "ObjectLiteralExpression"
              /\ OnlyStringLeaves(properties[i].initializer.properties)

RECURSIVE SumOfBuckets(_)
SumOfBuckets(v2k) ==
    IF v2k = <<>> THEN 0 ELSE Len(Head(v2k).v) + SumOfBuckets(Tail(v2k))

\* the buckets of valueToKeys that list key
BucketsOf(v2k, key) ==
    {i \in 1..Len(v2k) : \E j \in 1..Len(v2k[i].v) : v2k[i].v[j] = key}

Recorded(leaf) ==
    /\ HasOwn(keyToValue, leaf.key)
    /\ HasOwn(valueToKeys, leaf.value)
    /\ \E j \in 1..Len(GetOwn(valueToKeys, leaf.value)) :
          GetOwn(valueToKeys, leaf.value)[j] = leaf.key

Reported(start) ==
    \E j \in 1..Len(errors) :
        errors[j].line = start.line + 1 /\ errors[j].column = start.character + 1

-----------------------------------------------------------------------------
(* Claims about the parser, checked under SpecParser.                      *)

\* C1: when parseContent returns, the total number of entries across all
\* valueToKeys buckets equals the number of keys in keyToValue.
C1_BucketTotalEqualsKeyCount ==
    pc = "returned" => SumOfBuckets(valueToKeys) = Len(keyToValue)

\* C2: after any sequence of addTranslation calls, every key of keyToValue
\* is listed in exactly one valueToKeys bucket, the bucket of its value.
C2_KeyInExactlyOneBucket ==
    \A n \in 1..Len(keyToValue) :
        /\ Cardinality(BucketsOf(valueToKeys, keyToValue[n].k)) = 1
        /\ HasOwn(valueToKeys, keyToValue[n].v)
        /\ BucketsOf(valueToKeys, keyToValue[n].k)
              = {IndexOf(valueToKeys, keyToValue[n].v)}

\* C3: traversal never stops early: when parseContent returns for an
\* exported object literal, every string leaf of the tree is recorded in
\* both maps and every member with a diagnostic has its diagnostic reported.
C3_TraversalCompletes ==
    (pc = "returned" /\ HasObjectRoot) =>
        /\ \A n \in 1..Len(StringLeaves(Root.properties, "")) :
              Recorded(StringLeaves(Root.properties, "")[n])
        /\ \A n \in 1..Len(DiagnosedStarts(Root.properties, 1, 1, 1)) :
              Reported(DiagnosedStarts(Root.properties, 1, 1, 1)[n])

\* C4: a step over a member that records no leaf and descends into no
\* nested object adds at least one diagnostic.
C4_NoSilentDrop ==
    [][(AtProperty /\ valueToKeys' = valueToKeys /\ keyToValue' = keyToValue
          /\ Len(stack') <= Len(stack))
       => Len(errors') > Len(errors)]_vars

\* C5: for an exported object literal whose leaves are all strings, the
\* parse returns no error and keyToValue holds exactly one entry per leaf,
\* keyed by the dot-joined path and holding the leaf's string.
C5_StringCatalogFullyIndexed ==
    (pc = "returned" /\ HasObjectRoot /\ OnlyStringLeaves(Root.properties)) =>
        LET leaves == StringLeaves(Root.properties, "")
        IN  /\ errors = <<>>
            /\ Len(keyToValue) = Len(leaves)
            /\ \A n \in 1..Len(leaves) :
                  /\ HasOwn(keyToValue, leaves[n].key)
                  /\ GetOwn(keyToValue, leaves[n].key) = leaves[n].value

C7_InvalidValueOneDiagnostic ==
    [][(AtProperty /\ HasInvalidValue(Cur)) =>
          /\ valueToKeys' = valueToKeys
          /\ keyToValue' = keyToValue
          /\ Len(errors') = Len(errors) + 1
          /\ Includes(errors'[Len(errors')].message,
                      "'" \o FullKey(Top.prefix, Cur.name) \o "'")
          /\ pc' = "traverse"
          /\ stack' = Advance]_vars

\* the file has an `export default <expression>` statement
HasExportAssignment(statements) ==
    \E i \in 1..Len(statements) : statements[i].kind = "ExportAssignment"

\* the local names that an `export { name as default }` exports as default
ReExportedAsDefault(statements) ==
    {statements[i].elements[e].propertyName :
        <<i, e>> \in {ie \in (1..Len(statements)) \X (1..MaxStatements) :
                        /\ statements[ie[1]].kind = "ExportDeclaration"
                        /\ ie[2] <= Len(statements[ie[1]].elements)
                        /\ statements[ie[1]].elements[ie[2]].name = "default"
                        /\ statements[ie[1]].elements[ie[2]].propertyName # ""}}

\* the initializers of the top-level declarations of the variable `name`
InitializersOf(statements, name) ==
    {statements[i].declarations[d].initializer :
        <<i, d>> \in {id \in (1..Len(statements)) \X (1..MaxStatements) :
                        /\ statements[id[1]].kind = "VariableStatement"
                        /\ id[2] <= Len(statements[id[1]].declarations)
                        /\ statements[id[1]].declarations[id[2]].name = name
                        /\ statements[id[1]].declarations[id[2]].initializer
                              # NoNode}}

\* pattern (b): a named export re-exports as default a variable the file
\* declares with an initializer
HasLocalReExport(statements) ==
    \E name \in ReExportedAsDefault(statements) :
        InitializersOf(statements, name) # {}

\* C11: when a file without `export default <expression>` re-exports one
\* local variable as default, the expression parseContent traverses is the
\* initializer of that variable, wherever its declaration stands among the
\* variable declarations of the file.
C11_ReExportResolvesToItsIdentifier ==
    (/\ pc \notin {"parseTranslationFile", "parseContent"}
     /\ workspaceFolders /\ fileContent.kind # "missing"
     /\ ~HasExportAssignment(sourceFile.statements)
     /\ Cardinality(ReExportedAsDefault(sourceFile.statements)) = 1
     /\ HasLocalReExport(sourceFile.statements))
    => \A name \in ReExportedAsDefault(sourceFile.statements) :
          findDefaultExport(sourceFile)
             \in InitializersOf(sourceFile.statements, name)

\* C12: when the file has neither `export default <expression>` nor a named
\* export that re-exports a declared variable as default, parseContent
\* returns two empty maps and the single diagnostic "No default export
\* found in translation file", without line and column.
C12_NoDefaultExportOneDiagnostic ==
    (/\ pc = "returned"
     /\ workspaceFolders /\ fileContent.kind # "missing"
     /\ ~HasExportAssignment(sourceFile.statements)
     /\ ~HasLocalReExport(sourceFile.statements))
    => /\ valueToKeys = EmptyObject
       /\ keyToValue = EmptyObject
       /\ errors = <<ParseError("No default export found in translation file",
                                0, 0)>>

\* C13: parseTranslationFile never throws; without a workspace folder or
\* without the file it returns two empty maps and exactly one diagnostic,
\* which describes the failure and has no line and no column.
C13_ParseTranslationFileNeverThrows ==
    /\ pc # "threw"
    /\ (pc = "returned" /\ (~workspaceFolders \/ fileContent.kind = "missing")) =>
          /\ valueToKeys = EmptyObject
          /\ keyToValue = EmptyObject
          /\ Len(errors) = 1
          /\ errors[1].line = 0
          /\ errors[1].column = 0
          /\ \/ ~workspaceFolders
                /\ Includes(errors[1].message, "No workspace folder found")
             \/ workspaceFolders
                /\ Includes(errors[1].message,
                            "Translation file not found: " \o AbsPath)

\* C13 witness: parseTranslationFile has returned for a file that does not
\* exist in the workspace folder.
C13_Witness ==
    /\ pc = "returned"
    /\ workspaceFolders
    /\ fileContent.kind = "missing"
    /\ errors = <<ParseError(
          "Failed to parse translation file: Error: Translation file not found: /workspace/src/i18n/en.ts",
          0, 0)>>

\* the diagnostics that carry a position, as 0-based starts
PositionsOf(errs) ==
    LET positioned == SelectSeq(errs, LAMBDA e : e.line # 0)
    IN  [n \in 1..Len(positioned) |->
            Pos(positioned[n].line - 1, positioned[n].column - 1)]

IsPrefix(short, long) ==
    Len(short) <= Len(long) /\ SubSeq(long, 1, Len(short)) = short

\* C19: the diagnostics are in depth-first, left-to-right order.  At every
\* moment the positioned diagnostics are the first ones of the depth-first,
\* left-to-right list of the diagnosed members of the exported object (all
\* of them when the traversal went through); they are in document order, so
\* the diagnostics of the members nested in a property stand after those of
\* the properties to its left and before those of the properties to its
\* right; the diagnostic of a thrown error, which has no position, is last.
C19_DiagnosticsInTraversalOrder ==
    /\ \A i, j \in 1..Len(errors) :
          i < j => /\ errors[i].line # 0
                   /\ errors[j].line # 0 => errors[i].line < errors[j].line
    /\ (pc \in {"traverse", "returned"} /\ HasObjectRoot) =>
          /\ IsPrefix(PositionsOf(errors),
                      DiagnosedStarts(Root.properties, 1,
                                      RootStart(sourceFile).line + 1, 1))
          /\ (pc = "returned" /\ \A n \in 1..Len(errors) : errors[n].line # 0) =>
                PositionsOf(errors)
                   = DiagnosedStarts(Root.properties, 1,
                                     RootStart(sourceFile).line + 1, 1)

\* C19 witness: a parse has returned two diagnostics, the first for a
\* member nested in the first property (line 3, column 5), the second for
\* the property to its right (line 5, column 3).
C19_Witness ==
    /\ pc = "returned"
    /\ HasObjectRoot
    /\ Len(Root.properties) = 2
    /\ Root.properties[1].initializer.kind = "ObjectLiteralExpression"
    /\ Len(errors) = 2
    /\ errors[1].line = 3 /\ errors[1].column = 5
    /\ errors[2].line = 5 /\ errors[2].column = 3

-----------------------------------------------------------------------------
(* Claims about the validator, checked under SpecParser (C14, C15) and     *)
(* under SpecValidator (C16, C17).                                         *)

\* the text of a warning after its first ": "
RECURSIVE AfterColon(_)
AfterColon(s) ==
    IF Len(s) < 2 THEN ""
    ELSE IF SubSeq(s, 1, 2) = ": " THEN SubSeq(s, 3, Len(s))
    ELSE AfterColon(SubSeq(s, 2, Len(s)))

\* the items of a list written with ", " between them
RECURSIVE ItemsFrom(_, _)
ItemsFrom(s, item) ==
    IF s = "" THEN <<item>>
    ELSE IF Len(s) >= 2 /\ SubSeq(s, 1, 2) = ", "
         THEN <<item>> \o ItemsFrom(SubSeq(s, 3, Len(s)), "")
         ELSE ItemsFrom(SubSeq(s, 2, Len(s)), item \o SubSeq(s, 1, 1))

ItemsOf(s) == IF s = "" THEN <<>> ELSE ItemsFrom(s, "")

\* the warnings of the last validation that contain the phrase
WarningsAbout(phrase) ==
    SelectSeq(validation.warnings, LAMBDA w : Includes(w, phrase))

\* the distinct keys in the bucket of the i-th value
DistinctKeys(i) ==
    {valueToKeys[i].v[j] : j \in 1..Len(valueToKeys[i].v)}

ReportedAsDuplicate(value) ==
    \E n \in 1..Len(WarningsAbout("duplicate translation values")) :
        Includes(AfterColon(WarningsAbout("duplicate translation values")[n]),
                 "\"" \o value \o "\"")

\* a string of white space only
IsBlank(s) == \A i \in 1..Len(s) : SubSeq(s, i, i) \in WhiteSpace

BlankKeys ==
    {keyToValue[i].k : i \in {n \in 1..Len(keyToValue) : IsBlank(keyToValue[n].v)}}

OversizedKeys ==
    {keyToValue[i].k :
        i \in {n \in 1..Len(keyToValue) : Len(keyToValue[n].v) > MaxValueLength}}

\* C14: after validation of a parsed catalog, a value is named in the
\* duplicate-value warning if and only if its bucket holds at least two
\* distinct keys; a value of one key, however often assigned, is not named.
C14_DuplicateIffTwoDistinctKeys ==
    validation.called =>
        \A i \in 1..Len(valueToKeys) :
            ReportedAsDuplicate(valueToKeys[i].k)
               <=> Cardinality(DistinctKeys(i)) >= 2

\* C15: for each value whose bucket has more than one key, some warning
\* names the value and, in its list, every key of the bucket.
C15_DuplicateWarningListsKeys ==
    validation.called =>
        \A i \in 1..Len(valueToKeys) :
            Len(valueToKeys[i].v) > 1 =>
                \E n \in 1..Len(validation.warnings) :
                    /\ Includes(validation.warnings[n],
                                "\"" \o valueToKeys[i].k \o "\"")
                    /\ \A j \in 1..Len(valueToKeys[i].v) :
                          Includes(AfterColon(validation.warnings[n]),
                                   valueToKeys[i].v[j])

\* C16: there is an empty-value warning if and only if some key's value is
\* blank (empty once surrounding white space is trimmed); there is at most
\* one, and it lists exactly the keys with a blank value, each once.
C16_EmptyWarningListsBlankKeys ==
    validation.called =>
        LET ws == WarningsAbout("empty translation values")
        IN  /\ Len(ws) <= 1
            /\ Len(ws) = 1 <=> BlankKeys # {}
            /\ Len(ws) = 1 =>
                  LET items == ItemsOf(AfterColon(ws[1]))
                  IN  /\ {items[n] : n \in 1..Len(items)} = BlankKeys
                      /\ Len(items) = Cardinality(BlankKeys)

\* C16 witness: { a: " ", b: "X", ... } has been validated: the only
\* warning lists key a.
C16_Witness ==
    /\ validation.called
    /\ HasOwn(keyToValue, "a") /\ GetOwn(keyToValue, "a") = " "
    /\ HasOwn(keyToValue, "b") /\ GetOwn(keyToValue, "b") = "X"
    /\ validation.warnings = <<"Found 1 empty translation values: a">>

\* C17: there is an oversized-value warning if and only if some key's value
\* is longer than 200 characters; there is at most one, it gives the number
\* of such keys and contains none of the long values; the report's errors
\* are always empty.
C17_OversizedWarningCountsOnly ==
    validation.called =>
        LET ws == WarningsAbout("very long translation values")
        IN  /\ Len(ws) <= 1
            /\ Len(ws) = 1 <=> OversizedKeys # {}
            /\ Len(ws) = 1 =>
                  /\ Includes(ws[1], "Found " \o ToString(Cardinality(OversizedKeys))
                                        \o " very long")
                  /\ \A n \in 1..Len(keyToValue) :
                        Len(keyToValue[n].v) > MaxValueLength =>
                            ~Includes(ws[1], keyToValue[n].v)
            /\ validation.errors = <<>>

\* C17 witness: key a has a value of exactly 200 characters and key b one
\* of 201: the only warning counts one very long value.
C17_Witness ==
    /\ validation.called
    /\ HasOwn(keyToValue, "a") /\ Len(GetOwn(keyToValue, "a")) = MaxValueLength
    /\ HasOwn(keyToValue, "b") /\ Len(GetOwn(keyToValue, "b")) = MaxValueLength + 1
    /\ validation.warnings =
          <<"Found 1 very long translation values (>200 chars)">>

-----------------------------------------------------------------------------
(* Claims about repeated parses, checked under SpecReparse.                *)

\* C18: whenever a parse returns, its valueToKeys, keyToValue and errors
\* are those every earlier parse of the same text by this TranslationParser
\* returned, whatever was parsed in between.
C18_ReparseYieldsSameResult ==
    pc = "returned" =>
        \A n \in 1..Len(parses) :
            parses[n].sourceFile = sourceFile =>
                parses[n].result
                   = ParsedTranslationFile(valueToKeys, keyToValue, errors)

\* C18 witness: { a: "X", b: "X" } has been parsed, then another file, then
\* { a: "X", b: "X" } again, and the last parse has returned both keys.
C18_Witness ==
    /\ pc = "returned"
    /\ Len(parses) = 2
    /\ parses[1].sourceFile = sourceFile
    /\ parses[2].sourceFile # sourceFile
    /\ parses[2].result.errors # <<>>
    /\ ObjectKeys(keyToValue) = <<"a", "b">>
    /\ valueToKeys = <<[k |-> "X", v |-> <<"a", "b">>]>>

-----------------------------------------------------------------------------
(* Claims about the catalog lifecycle, checked under SpecLifecycle.        *)

\* the maps loadTranslations can return
WholeMaps ==
    {loadTranslations(content, TRUE).map : content \in FileContents}

\* the map loadTranslations built from what a reload had read
MapOf(read) == loadTranslations(read.content, read.workspaceFolder).map

\* the reloads that have read the file and have not published yet
ReloadsInFlight ==
    {i \in 1..Len(microtasks) : microtasks[i].kind = "onDidChange"}

\* C8: when a reload that failed (file missing, no workspace folder, no
\* default-exported object) finishes, translationMap, the file system
\* provider's map and the search view provider's map stay as they were.
C8_FailedReloadKeepsPublishedMap ==
    [][(/\ microtasks # <<>>
        /\ Head(microtasks).kind = "onDidChange"
        /\ Head(microtasks).result.failed
        /\ microtasks' = Tail(microtasks))
       => /\ translationMap' = translationMap
          /\ fileSystemProvider' = fileSystemProvider
          /\ viewTranslationMap' = viewTranslationMap]_vars

\* C9: every consumer always holds a map that loadTranslations built as a
\* whole, never a map with entries of two loads; once a reload has finished
\* all consumers hold the map built from what that reload read, and after a
\* reload that read { a: "Z" } a query for "X" finds nothing and a query
\* for "Z" finds key a.
C9_ReloadSwapsWholeMap ==
    /\ translationMap \in WholeMaps
    /\ fileSystemProvider.translationMap \in WholeMaps
    /\ viewTranslationMap \in WholeMaps
    /\ lastCompleted.started =>
          /\ translationMap = MapOf(lastCompleted)
          /\ viewTranslationMap = MapOf(lastCompleted)
          /\ fileSystemProvider.defined =>
                fileSystemProvider.translationMap = MapOf(lastCompleted)
    /\ (lastCompleted.started /\ lastCompleted.workspaceFolder
          /\ lastCompleted.content = CatalogZ) =>
          /\ findTranslations(viewTranslationMap, "X") = <<>>
          /\ findTranslations(viewTranslationMap, "Z") = <<SearchResult("a", "Z")>>

\* C9 witness: a search made while { a: "X" } was published found key a,
\* and a reload that read { a: "Z" } has since replaced the map.
C9_Witness ==
    /\ lastCompleted.started
    /\ lastCompleted.workspaceFolder
    /\ lastCompleted.content = CatalogZ
    /\ lastSearchTerm = "x"
    /\ lastSearchResults = <<SearchResult("a", "X")>>
    /\ viewTranslationMap = <<[k |-> "Z", v |-> <<"a">>]>>

\* C10: reloads are serialized: at most one reload has read the file and
\* not yet published, and once every notification is handled the published
\* map is the one built from the latest read.
C10_ReloadsSerialized ==
    /\ Cardinality(ReloadsInFlight) <= 1
    /\ (notifications = 0 /\ microtasks = <<>> /\ lastRead.started) =>
          translationMap = MapOf(lastRead)

-----------------------------------------------------------------------------
(* Claims about the query, checked under SpecLifecycle.                    *)

\* the letters that differ in case only
CasePairs == {<<"X", "x">>, <<"Z", "z">>, <<"A", "a">>}

SameLetter(c, d) == c = d \/ <<c, d>> \in CasePairs \/ <<d, c>> \in CasePairs

\* text occurs in value, letter case ignored
ContainsIgnoringCase(value, text) ==
    \E i \in 0..(Len(value) - Len(text)) :
        \A n \in 1..Len(text) :
            SameLetter(SubSeq(value, i + n, i + n), SubSeq(text, n, n))

Matches(value, text) == IsBlank(text) \/ ContainsIgnoringCase(value, text)

\* results holds one (key, value) per key of every bucket of map whose
\* value matches text, and nothing else
ExactResults(map, text, results) ==
    /\ \A i \in 1..Len(map) : \A j \in 1..Len(map[i].v) :
          Cardinality({n \in 1..Len(results) :
                          /\ results[n].key = map[i].v[j]
                          /\ results[n].value = map[i].k})
             = IF Matches(map[i].k, text)
               THEN Cardinality({m \in 1..Len(map[i].v) : map[i].v[m] = map[i].v[j]})
               ELSE 0
    /\ \A n \in 1..Len(results) :
          \E i \in 1..Len(map) : \E j \in 1..Len(map[i].v) :
              /\ results[n].key = map[i].v[j]
              /\ results[n].value = map[i].k

\* C20: a search returns exactly one (key, value) result per key of every
\* bucket whose value contains the search text, letter case ignored, and no
\* other result; for an empty or blank text it returns one result per key
\* of every bucket.
C20_SearchReturnsExactlyTheMatches ==
    [][\A v \in Views : \A text \in SearchTexts :
          Search(v, text) => ExactResults(viewTranslationMap, text,
                                          lastSearchResults')]_vars

\* C20 witness: the search for "x" in { X: [a, b.c] } has returned both
\* keys, each once.
C20_Witness ==
    /\ viewTranslationMap = <<[k |-> "X", v |-> <<"a", "b.c">>]>>
    /\ lastSearchTerm = "x"
    /\ lastSearchResults = <<SearchResult("a", "X"), SearchResult("b.c", "X")>>

-----------------------------------------------------------------------------
(* activate.ts, I18nFileSystemProvider: the virtual files of the i18n:     *)
(* scheme.                                                                 *)

\* vscode.Uri, as far as the provider reads it
Uri(scheme, path) == [scheme |-> scheme, path |-> path]

\* the URIs the editor asks the provider about
Uris ==
    {Uri("i18n", "/a.ts"), Uri("i18n", "/b.c.ts"), Uri("i18n", "/X.ts"),
     Uri("i18n", "/Z.ts"), Uri("i18n", "/constructor.ts"),
     Uri("i18n", "/nokey.ts"), Uri("i18n", "/.ts"), Uri("i18n", "/X"),
     Uri("file", "/a.ts")}

\* String.prototype.endsWith
EndsWith(s, suffix) ==
    /\ Len(s) >= Len(suffix)
    /\ SubSeq(s, Len(s) - Len(suffix) + 1, Len(s)) = suffix

\* what getKeyFromUri returns when it returns null
NoKey == [null |-> TRUE, key |-> ""]

\* I18nFileSystemProvider.getKeyFromUri
getKeyFromUri(uri) ==
    IF uri.scheme # "i18n" THEN NoKey
    ELSE IF EndsWith(uri.path, ".ts")
         THEN [null |-> FALSE, key |-> SubSeq(uri.path, 2, Len(uri.path) - 3)]
         ELSE [null |-> FALSE, key |-> SubSeq(uri.path, 2, Len(uri.path))]

\* key && this.translationMap[key]: the key is a non-empty string and the
\* map has a member of that name, its own or an inherited one
Found(map, found) ==
    /\ ~found.null
    /\ found.key # ""
    /\ \/ HasOwn(map, found.key)
       \/ found.key \in ObjectPrototypeNames

\* this.translationMap[key][0] inside the template literal: the first
\* element of the own array, "undefined" for an inherited member
FirstOf(map, key) ==
    IF HasOwn(map, key) THEN GetOwn(map, key)[1] ELSE "undefined"

FileNotFound(op, uri) ==
    [op |-> op, uri |-> uri, found |-> FALSE, content |-> ""]

\* I18nFileSystemProvider.stat
stat(map, uri) ==
    IF Found(map, getKeyFromUri(uri))
    THEN [op |-> "stat", uri |-> uri, found |-> TRUE, content |-> ""]
    ELSE FileNotFound("stat", uri)

\* I18nFileSystemProvider.readFile
readFile(map, uri) ==
    IF Found(map, getKeyFromUri(uri))
    THEN [op |-> "readFile", uri |-> uri, found |-> TRUE,
          content |-> "export const t = \""
                         \o FirstOf(map, getKeyFromUri(uri).key) \o "\";"]
    ELSE FileNotFound("readFile", uri)

\* the editor calls stat on the registered provider
Stat(uri) ==
    /\ phase = "listeners"
    /\ fileSystemProvider.defined
    /\ fsResult' = stat(fileSystemProvider.translationMap, uri)
    /\ UNCHANGED <<parserVars, focusVars, resolved, posted, phase,
                   fileContent, workspaceFolders, watcher, notifications,
                   microtasks, translationMap, fileSystemProvider,
                   viewTranslationMap, view, lastSearchTerm,
                   lastSearchResults, changes, lastRead, lastCompleted>>

\* the editor calls readFile on the registered provider
ReadFile(uri) ==
    /\ phase = "listeners"
    /\ fileSystemProvider.defined
    /\ fsResult' = readFile(fileSystemProvider.translationMap, uri)
    /\ UNCHANGED <<parserVars, focusVars, resolved, posted, phase,
                   fileContent, workspaceFolders, watcher, notifications,
                   microtasks, translationMap, fileSystemProvider,
                   viewTranslationMap, view, lastSearchTerm,
                   lastSearchResults, changes, lastRead, lastCompleted>>

NextFileSystem ==
    \/ \E content \in FileContents : WriteFile(content)
    \/ OnDidChange
    \/ ResumeOnDidChange
    \/ ResumeInitializeExtension
    \/ InitializeExtensionThen
    \/ \E uri \in Uris : Stat(uri)
    \/ \E uri \in Uris : ReadFile(uri)

SpecFileSystem == InitLifecycle /\ [][NextFileSystem]_vars

\* the keys of a value-to-keys map
CatalogKeys(map) ==
    {map[i].v[j] : <<i, j>> \in
        {p \in (1..Len(map)) \X (1..MaxProps + 1) : p[2] <= Len(map[p[1]].v)}}

\* the value a key of the map belongs to
ValueOfKey(map, key) ==
    map[CHOOSE i \in 1..Len(map) :
            \E j \in 1..Len(map[i].v) : map[i].v[j] = key].k

\* the key the virtual file i18n:/<k>.ts is named after
NamedKey(uri) == SubSeq(uri.path, 2, Len(uri.path) - 3)

NamesKeyOf(map, uri) ==
    /\ uri.scheme = "i18n"
    /\ EndsWith(uri.path, ".ts")
    /\ NamedKey(uri) \in CatalogKeys(map)

\* what the virtual file system is to answer for the loaded map
VirtualFile(map, op, uri) ==
    IF NamesKeyOf(map, uri)
    THEN [op |-> op, uri |-> uri, found |-> TRUE,
          content |-> IF op = "stat" THEN ""
                      ELSE "export const t = \""
                              \o ValueOfKey(map, NamedKey(uri)) \o "\";"]
    ELSE FileNotFound(op, uri)

\* C21: for every key k of the loaded catalog with value v, stat of
\* i18n:/<k>.ts succeeds and readFile returns  export const t = "v";  and
\* for a URI that names no key of the catalog both fail with FileNotFound.
C21_VirtualFilePerKey ==
    [][\A uri \in Uris :
          /\ Stat(uri) =>
                fsResult' = VirtualFile(fileSystemProvider.translationMap,
                                        "stat", uri)
          /\ ReadFile(uri) =>
                fsResult' = VirtualFile(fileSystemProvider.translationMap,
                                        "readFile", uri)]_vars

-----------------------------------------------------------------------------
(* Repeated key paths and roots that are not object literals, checked     *)
(* under SpecParser.                                                       *)

\* the positions of the leaves that assign the path key
AssignmentsOf(leaves, key) == {n \in 1..Len(leaves) : leaves[n].key = key}

\* the paths that are assigned more than once
RepeatedPaths(leaves) ==
    {leaves[n].key : n \in {m \in 1..Len(leaves) :
                               Cardinality(AssignmentsOf(leaves, leaves[m].key)) > 1}}

\* the last position of a non-empty set of positions
Last(positions) == CHOOSE n \in positions : \A m \in positions : m <= n

\* the paths of the leaves with the given value, in traversal order
RECURSIVE PathsWithValue(_, _)
PathsWithValue(leaves, value) ==
    IF leaves = <<>> THEN <<>>
    ELSE (IF Head(leaves).value = value THEN <<Head(leaves).key>> ELSE <<>>)
            \o PathsWithValue(Tail(leaves), value)

\* C22: when the same dotted key path is assigned more than once in one
\* parse, keyToValue holds the value of the last assignment in traversal
\* order, the bucket of every value assigned to the path lists one entry
\* per assignment in insertion order, and the only diagnostics are those of
\* the members that are rejected.
C22_RepeatedPathLastWriteWins ==
    (pc = "returned" /\ HasObjectRoot) =>
        LET leaves == StringLeaves(Root.properties, "")
        IN  \A key \in RepeatedPaths(leaves) :
                /\ HasOwn(keyToValue, key)
                /\ GetOwn(keyToValue, key)
                      = leaves[Last(AssignmentsOf(leaves, key))].value
                /\ \A n \in AssignmentsOf(leaves, key) :
                      /\ HasOwn(valueToKeys, leaves[n].value)
                      /\ GetOwn(valueToKeys, leaves[n].value)
                            = PathsWithValue(leaves, leaves[n].value)
                /\ Len(errors) = Len(DiagnosedStarts(Root.properties, 1, 1, 1))

\* C23: when the default export is a bare string literal the parse yields
\* exactly one leaf, with the empty path as its key; when it is neither an
\* object literal nor a string literal the parse yields empty maps and
\* exactly one diagnostic, with the 1-based line and column of the root.
C23_RootStringOneLeafRootOtherOneDiagnostic ==
    (pc = "returned" /\ Root.kind \notin {"null", "ObjectLiteralExpression"}) =>
        IF Root.kind = "StringLiteral"
        THEN /\ keyToValue = <<[k |-> "", v |-> Root.text]>>
             /\ valueToKeys = <<[k |-> Root.text, v |-> <<"">>]>>
        ELSE /\ keyToValue = EmptyObject
             /\ valueToKeys = EmptyObject
             /\ Len(errors) = 1
             /\ errors[1].line = RootStart(sourceFile).line + 1
             /\ errors[1].column = RootStart(sourceFile).character + 1

-----------------------------------------------------------------------------
(* activate.ts, I18nSearchViewProvider: focus requests and the messages of *)
(* the webviewReady handler.                                               *)

\* a focusSearch that drops the request when it cannot post
focusSearchForgetful(v, ready, pending) ==
    IF v # "none" /\ ready
    THEN [posted |-> <<Message(v, "focusSearch", "", <<>>)>>,
          pendingFocus |-> FALSE]
    ELSE [posted |-> <<>>, pendingFocus |-> pending]

\* I18nSearchViewProvider.focusSearch with this._view = v: the messages it
\* posts and the pendingFocus it leaves
focusSearch(v, ready, pending) ==
    IF v # "none" /\ ready
    THEN [posted |-> <<Message(v, "focusSearch", "", <<>>)>>,
          pendingFocus |-> FALSE]
    ELSE [posted |-> <<>>, pendingFocus |-> TRUE]

\* I18nSearchViewProvider.restoreLastSearch: the messages it posts
restoreLastSearch(v, ready, term, results) ==
    IF v # "none" /\ ready /\ term # ""
    THEN <<Message(v, "restoreSearch", term, results)>>
    ELSE <<>>

\* the i18n-search.focusSearch command, once the view has been shown
FocusSearch ==
    /\ phase = "listeners"
    /\ pendingFocus' = focusSearch(view, webviewReady, pendingFocus).pendingFocus
    /\ posted' = IF focusSearch(view, webviewReady, pendingFocus).posted = <<>>
                 THEN posted
                 ELSE focusSearch(view, webviewReady, pendingFocus).posted
    /\ unserved' = (unserved \/ view = "none" \/ ~webviewReady)
    /\ UNCHANGED <<parserVars, fsResult, webviewReady, readyViews, resolved,
                   phase, fileContent, workspaceFolders, watcher,
                   notifications, microtasks, translationMap,
                   fileSystemProvider, viewTranslationMap, view,
                   lastSearchTerm, lastSearchResults, changes, lastRead,
                   lastCompleted>>

\* the webview of v sends { type: "webviewReady" }: the flag is set, a
\* pending focus request is served, and the last search is restored or all
\* translations are listed
WebviewReady(v) ==
    /\ phase = "listeners"
    /\ v \in resolved
    /\ webviewReady' = TRUE
    /\ readyViews' = readyViews \cup {v}
    /\ unserved' = FALSE
    /\ pendingFocus' = IF pendingFocus
                       THEN focusSearch(view, TRUE, pendingFocus).pendingFocus
                       ELSE pendingFocus
    /\ posted' =
          (IF pendingFocus
           THEN focusSearch(view, TRUE, pendingFocus).posted ELSE <<>>)
          \o
          (IF lastSearchTerm # ""
           THEN restoreLastSearch(view, TRUE, lastSearchTerm, lastSearchResults)
           ELSE <<Message(v, "results", "",
                          findTranslations(viewTranslationMap, ""))>>)
    /\ UNCHANGED <<parserVars, fsResult, resolved, phase, fileContent,
                   workspaceFolders, watcher, notifications, microtasks,
                   translationMap, fileSystemProvider, viewTranslationMap,
                   view, lastSearchTerm, lastSearchResults, changes, lastRead,
                   lastCompleted>>

NextView ==
    \/ \E content \in Catalogs : WriteFile(content)
    \/ OnDidChange
    \/ ResumeOnDidChange
    \/ ResumeInitializeExtension
    \/ InitializeExtensionThen
    \/ \E v \in Views : ResolveWebviewView(v)
    \/ \E v \in Views : WebviewReady(v)
    \/ \E v \in Views : \E text \in SearchTexts : Search(v, text)
    \/ FocusSearch

SpecView == InitLifecycle /\ [][NextView]_vars

\* the messages of the given type among the posted ones
PostedOfType(messages, type) ==
    SelectSeq(messages, LAMBDA m : m.type = type)

\* C24: a focusSearch or restoreSearch message is posted only to a view
\* that has itself sent webviewReady.
C24_FocusAndRestoreOnlyToReadyViews ==
    \A i \in 1..Len(posted) :
        posted[i].type \in {"focusSearch", "restoreSearch"}
            => posted[i].to \in readyViews

EntriesOf(map) ==
    {SearchResult(map[i].v[j], map[i].k) : <<i, j>> \in
        {p \in (1..Len(map)) \X (1..MaxProps + 1) : p[2] <= Len(map[p[1]].v)}}

\* C27: every (key, value) result the webviewReady handler sends, in the
\* restored last search or in the default listing, is an entry of the map
\* the search view provider currently holds.
C27_ReadyResultsAreCurrentEntries ==
    [][\A v \in Views :
          WebviewReady(v) =>
              \A i \in 1..Len(posted') :
                  \A n \in 1..Len(posted'[i].results) :
                      posted'[i].results[n] \in EntriesOf(viewTranslationMap')]_vars

-----------------------------------------------------------------------------
(* The maps held after activation, checked under SpecLifecycle.            *)

\* initializeExtension and its then-callback have both run
ActivationDone ==
    \A i \in 1..Len(microtasks) :
        microtasks[i].kind \notin {"initializeExtension", "then"}

\* C26: once initializeExtension and its then-callback have run, and after
\* every completed reload, the search view provider, the file system
\* provider and activate's translationMap hold the same map; every map the
\* search view provider receives after the early empty one is the map
\* activate holds at that moment.
C26_ProvidersHoldTheLoadedMap ==
    /\ [](ActivationDone =>
             /\ fileSystemProvider.defined
             /\ fileSystemProvider.translationMap = translationMap
             /\ viewTranslationMap = translationMap)
    /\ [][/\ (viewTranslationMap' # viewTranslationMap) =>
                 (viewTranslationMap' = translationMap')
          /\ ResumeOnDidChange =>
                (/\ viewTranslationMap' = translationMap'
                 /\ (fileSystemProvider'.defined =>
                        fileSystemProvider'.translationMap = translationMap'))]_vars

\* C26 witness: activation has completed and a reload of { a: "Z" } has
\* completed after it; the map of that file is in all three places.
C26_Witness ==
    /\ ActivationDone
    /\ lastCompleted = ReadOf(CatalogZ, TRUE)
    /\ translationMap = <<[k |-> "Z", v |-> <<"a">>]>>
    /\ viewTranslationMap = translationMap
    /\ fileSystemProvider = [defined |-> TRUE, translationMap |-> translationMap]

====
